---------------------------- MODULE Spec2Model ----------------------------
(***************************************************************************)
(* Model of src/windtunnel.py: class WindTunnelGH, the Grasshopper adapter *)
(* of the butterfly wind tunnel.                                           *)
(*                                                                         *)
(* Python values are records [t |-> type name, v |-> integer payload].     *)
(* Floats carry their value in units of 1e-4 (0.005 is PyFloat(50)).       *)
(* A list (geometries) is a TLA+ sequence of such records.                 *)
(* Every statement of the two methods is one step; the external            *)
(* collaborators (Z0, convert_document_units_to_meters, TunnelParameters,  *)
(* the base class constructor, Case.from_wind_tunnel) are stubs that       *)
(* record how they were called and may either return or raise.             *)
(***************************************************************************)
EXTENDS Integers, Sequences, FiniteSets, TLC

VARIABLES
    pc,                 \* statement about to run: idle, lookup, units, tparams, super, builder
    op,                 \* operation running or last run: none, construct, to_case
    kwargs,             \* arguments as the caller wrote them (landscape may be Omitted)
    landscape,          \* parameter landscape after default binding
    tunnel_parameters,  \* parameter / local tunnel_parameters (rebound at line 78)
    roughness,          \* local roughness (line 70)
    convertToMeters,    \* local convertToMeters (line 76)
    docUnit,            \* ambient unit system of the host document
    make2d_parameters,  \* argument of to_openfoam_case
    calls,              \* collaborators invoked by the running / last operation, in order
    superArgs,          \* positional arguments captured by the base class constructor
    instance,           \* state of the adapter instance (<<>> while unconstructed)
    builderLog,         \* argument lists captured by Case.from_wind_tunnel for this instance
    builderRet,         \* value Case.from_wind_tunnel returned to the running / last to_case
    extError,           \* error raised by a collaborator during the operation
    result,             \* what the operation handed back to its caller
    prevScale           \* scale factor the adapter built before this one was given

vars == <<pc, op, kwargs, landscape, tunnel_parameters, roughness, convertToMeters,
          docUnit, make2d_parameters, calls, superArgs, instance, builderLog,
          builderRet, extError, result, prevScale>>

-----------------------------------------------------------------------------
(* Bounds *)
MaxBuilderLog == 2
MaxLandscape == 8

-----------------------------------------------------------------------------
(* Python values *)
None == [t |-> "NoneType", v |-> 0]
Omitted == [t |-> "omitted", v |-> 0]
PyInt(n) == [t |-> "int", v |-> n]
PyFloat(n) == [t |-> "float", v |-> n]
PyText(n) == [t |-> "str", v |-> n]
Obj(cls, n) == [t |-> cls, v |-> n]
\* a list, by its length (an unconnected input of the host arrives as [])
PyList(len) == [t |-> "list", v |-> len]

\* bool(x) as Python evaluates it for `x or y`
Truthy(x) ==
    CASE x.t = "NoneType" -> FALSE
      [] x.t \in {"int", "float", "bool"} -> x.v # 0
      [] x.t = "list" -> x.v # 0
      [] OTHER -> TRUE

\* text of the str values used as inputs
StrText(n) == IF n = 1 THEN "x" ELSE ""

\* str(x), as str.format renders a {} field
PyStr(x) ==
    CASE x.t = "int" -> ToString(x.v)
      [] x.t = "float" -> ToString(x.v) \o "e-4"
      [] x.t = "str" -> StrText(x.v)
      [] x.t = "NoneType" -> "None"
      [] OTHER -> "<" \o x.t \o ">"

NoErr == [type |-> "", msg |-> ""]
Err(type, msg) == [type |-> type, msg |-> msg]

NoResult == [kind |-> "none", value |-> None, err |-> NoErr, text |-> <<>>]
Return(x) == [kind |-> "return", value |-> x, err |-> NoErr, text |-> <<>>]
\* an exception reaching the caller: the error and the pieces of its message
Raise(e, text) == [kind |-> "raise", value |-> None, err |-> e, text |-> text]

-----------------------------------------------------------------------------
(* Collaborators *)

\* butterfly.z0.Z0: the roughness lengths, in 1e-4 m, listed in the class docstring
Z0Values == <<2, 50, 300, 1000, 2500, 5000, 10000, 20000>>

\* Z0()[key] is defined for the integers 0..7 only
Z0Defined(key) == key.t = "int" /\ key.v \in 0..(Len(Z0Values) - 1)

\* Z0()[key] for a key it is defined on
Z0Lookup(key) == PyFloat(Z0Values[key.v + 1])

\* the failure Z0()[key] raises otherwise
Z0Error(key) ==
    IF key.t = "int" THEN Err("IndexError", "index out of range")
    ELSE Err("TypeError", "indices must be integers")

DocUnits == {"Meters", "Millimeters"}

\* convert_document_units_to_meters(): multiplier of the ambient unit, in 1e-4
convert_document_units_to_meters(unit) ==
    CASE unit = "Meters" -> PyFloat(10000)
      [] unit = "Millimeters" -> PyFloat(10)

UnitError == Err("UnitQueryError", "unknown document units")
TunnelParametersError == Err("TunnelParametersError", "cannot build defaults")
SuperError == Err("DomainError", "invalid geometries")
BuilderError == Err("CaseError", "case build failed")

\* butterfly.windtunnel.TunnelParameters(): a fresh default instance
DefaultTunnelParameters == Obj("TunnelParameters", 0)

\* values Case.from_wind_tunnel may return
Cases == {Obj("Case", 1), Obj("Case", 2)}

-----------------------------------------------------------------------------
(* Inputs *)
Names == {PyText(2)}
Geometries == {<<>>, <<Obj("BFGeometry", 1)>>}
WindVectors == {Obj("Vector3D", 1)}
TunnelParameterInputs == {None, Obj("TunnelParameters", 1), PyList(0)}
LandscapeInputs ==
    {Omitted, PyText(1), PyFloat(10000)} \cup {PyInt(n) : n \in (0 - 1)..MaxLandscape}
MeshingParameterInputs == {None, Obj("MeshingParameters", 1)}
ZrefInputs == {None, PyFloat(100000)}
Make2dInputs == {None, Obj("Make2dParameters", 1)}

\* the combinations of the optional pass-through arguments that are exercised:
\* zref is given exactly when geometries is not empty
Kwargs ==
    {kw \in [name : Names, geometries : Geometries, wind_vector : WindVectors,
             tunnel_parameters : TunnelParameterInputs, landscape : LandscapeInputs,
             meshing_parameters : MeshingParameterInputs, zref : ZrefInputs] :
        (kw.zref = None) <=> (kw.geometries = <<>>)}

NoKwargs ==
    [name |-> None, geometries |-> <<>>, wind_vector |-> None,
     tunnel_parameters |-> None, landscape |-> Omitted,
     meshing_parameters |-> None, zref |-> None]

-----------------------------------------------------------------------------
(* WindTunnelGH.from_geometries_wind_vector_and_parameters *)

\* variant: the default the class docstring announces
DefaultLandscape_Docstring == 7

\* default of the landscape parameter in the signature
DefaultLandscape == 1

\* binding of the landscape parameter at call time
BindLandscape(given) == IF given = Omitted THEN PyInt(DefaultLandscape) ELSE given

\* variant: the document units are queried before the lookup
Body_UnitsFirst == <<"units", "lookup", "tparams", "super">>

\* the statements of the method body, in program order
Body == <<"lookup", "units", "tparams", "super">>

\* the statement that runs after statement s
After(s) == Body[(CHOOSE i \in DOMAIN Body : Body[i] = s) + 1]

\* variant: the table is indexed from one
Subscript_OneBased(l) == IF l.t = "int" THEN PyInt(l.v - 1) ELSE l

\* the subscript of Z0()[landscape]
Subscript(l) == l

\* variant: the message leaves out the cause
FormatInvalidLandscape_NoCause(l, e) ==
    <<"Invalid input for landscape:", PyStr(l)>>

\* 'Invalid input for landscape:{}\n{}'.format(landscape, e)
FormatInvalidLandscape(l, e) ==
    <<"Invalid input for landscape:", PyStr(l), "\n", e.msg>>

\* the handler of the try block: raise ValueError(...)
InvalidLandscapeError(l, e) ==
    Raise(Err("ValueError", "Invalid input for landscape"), FormatInvalidLandscape(l, e))

\* an exception that no handler of this class intercepts
Propagate(e) == Raise(e, <<e.msg>>)

\* variant: only None is replaced by the default
KeepsTunnelParameters_IfNotNone(tp) == tp # None

\* tunnel_parameters or butterfly.windtunnel.TunnelParameters(): left operand kept?
KeepsTunnelParameters(tp) == Truthy(tp)

\* variant: meshing_parameters and zref change places
SuperArgs_Swapped(name, geometries, wind_vector, tp, z0, meshing_parameters, zref, scale) ==
    <<name, geometries, wind_vector, tp, z0, zref, meshing_parameters, scale>>

\* the positional arguments of the call to the base class constructor
SuperArgs(name, geometries, wind_vector, tp, z0, meshing_parameters, zref, scale) ==
    <<name, geometries, wind_vector, tp, z0, meshing_parameters, zref, scale>>

\* entry: parameters bound; the caller drops the adapter it held before
ConstructCall ==
    /\ pc = "idle"
    /\ \E kw \in Kwargs :
        /\ kwargs' = kw
        /\ landscape' = BindLandscape(kw.landscape)
        /\ tunnel_parameters' = kw.tunnel_parameters
    /\ pc' = Body[1]
    /\ op' = "construct"
    /\ roughness' = None
    /\ convertToMeters' = None
    /\ make2d_parameters' = None
    /\ calls' = <<>>
    /\ superArgs' = <<>>
    /\ instance' = <<>>
    /\ builderLog' = <<>>
    /\ builderRet' = None
    /\ extError' = NoErr
    /\ result' = NoResult
    /\ prevScale' = IF instance # <<>> THEN instance[8] ELSE prevScale
    /\ UNCHANGED docUnit

\* try: roughness = Z0()[landscape]
LookupRoughness ==
    /\ pc = "lookup"
    /\ Z0Defined(Subscript(landscape))
    /\ roughness' = Z0Lookup(Subscript(landscape))
    /\ calls' = Append(calls, "Z0")
    /\ pc' = After("lookup")
    /\ UNCHANGED <<op, kwargs, landscape, tunnel_parameters, convertToMeters, docUnit,
                   make2d_parameters, superArgs, instance, builderLog, builderRet,
                   extError, result, prevScale>>

\* except Exception as e: raise ValueError(...)
LookupFails ==
    /\ pc = "lookup"
    /\ ~Z0Defined(Subscript(landscape))
    /\ calls' = Append(calls, "Z0")
    /\ extError' = Z0Error(Subscript(landscape))
    /\ result' = InvalidLandscapeError(landscape, Z0Error(Subscript(landscape)))
    /\ pc' = "idle"
    /\ UNCHANGED <<op, kwargs, landscape, tunnel_parameters, roughness,
                   convertToMeters, docUnit, make2d_parameters, superArgs, instance,
                   builderLog, builderRet, prevScale>>

\* variant: the scale factor of the previous adapter is reused
QueryUnits_Cached ==
    /\ pc = "units"
    /\ IF prevScale # None
       THEN convertToMeters' = prevScale /\ calls' = calls
       ELSE /\ calls' = Append(calls, "convert_document_units_to_meters")
            /\ convertToMeters' = convert_document_units_to_meters(docUnit)
    /\ pc' = After("units")
    /\ UNCHANGED <<op, kwargs, landscape, tunnel_parameters, roughness, docUnit,
                   make2d_parameters, superArgs, instance, builderLog, builderRet,
                   extError, result, prevScale>>

\* convertToMeters = convert_document_units_to_meters()
QueryUnits ==
    /\ pc = "units"
    /\ calls' = Append(calls, "convert_document_units_to_meters")
    /\ convertToMeters' = convert_document_units_to_meters(docUnit)
    /\ pc' = After("units")
    /\ UNCHANGED <<op, kwargs, landscape, tunnel_parameters, roughness, docUnit,
                   make2d_parameters, superArgs, instance, builderLog, builderRet,
                   extError, result, prevScale>>

\* variant: the try block also encloses the unit query
QueryUnitsFails_Wrapped ==
    /\ pc = "units"
    /\ calls' = Append(calls, "convert_document_units_to_meters")
    /\ extError' = UnitError
    /\ result' = InvalidLandscapeError(landscape, UnitError)
    /\ pc' = "idle"
    /\ UNCHANGED <<op, kwargs, landscape, tunnel_parameters, roughness,
                   convertToMeters, docUnit, make2d_parameters, superArgs, instance,
                   builderLog, builderRet, prevScale>>

\* convert_document_units_to_meters() raises
QueryUnitsFails ==
    /\ pc = "units"
    /\ calls' = Append(calls, "convert_document_units_to_meters")
    /\ extError' = UnitError
    /\ result' = Propagate(UnitError)
    /\ pc' = "idle"
    /\ UNCHANGED <<op, kwargs, landscape, tunnel_parameters, roughness,
                   convertToMeters, docUnit, make2d_parameters, superArgs, instance,
                   builderLog, builderRet, prevScale>>

\* tunnel_parameters = tunnel_parameters or ...: the left operand is kept
KeepTunnelParameters ==
    /\ pc = "tparams"
    /\ KeepsTunnelParameters(tunnel_parameters)
    /\ pc' = After("tparams")
    /\ UNCHANGED <<op, kwargs, landscape, tunnel_parameters, roughness,
                   convertToMeters, docUnit, make2d_parameters, calls, superArgs,
                   instance, builderLog, builderRet, extError, result, prevScale>>

\* tunnel_parameters = ... or butterfly.windtunnel.TunnelParameters()
DefaultTunnelParametersUsed ==
    /\ pc = "tparams"
    /\ ~KeepsTunnelParameters(tunnel_parameters)
    /\ calls' = Append(calls, "TunnelParameters")
    /\ tunnel_parameters' = DefaultTunnelParameters
    /\ pc' = After("tparams")
    /\ UNCHANGED <<op, kwargs, landscape, roughness, convertToMeters, docUnit,
                   make2d_parameters, superArgs, instance, builderLog, builderRet,
                   extError, result, prevScale>>

\* butterfly.windtunnel.TunnelParameters() raises
DefaultTunnelParametersFails ==
    /\ pc = "tparams"
    /\ ~KeepsTunnelParameters(tunnel_parameters)
    /\ calls' = Append(calls, "TunnelParameters")
    /\ extError' = TunnelParametersError
    /\ result' = Propagate(TunnelParametersError)
    /\ pc' = "idle"
    /\ UNCHANGED <<op, kwargs, landscape, tunnel_parameters, roughness,
                   convertToMeters, docUnit, make2d_parameters, superArgs, instance,
                   builderLog, builderRet, prevScale>>

\* return super(WindTunnelGH, cls).from_geometries_wind_vector_and_parameters(...)
SuperConstruct ==
    /\ pc = "super"
    /\ calls' = Append(calls, "super")
    /\ superArgs' = SuperArgs(kwargs.name, kwargs.geometries, kwargs.wind_vector,
                              tunnel_parameters, roughness,
                              kwargs.meshing_parameters, kwargs.zref, convertToMeters)
    /\ instance' = superArgs'
    /\ result' = Return(Obj("WindTunnelGH", 1))
    /\ pc' = "idle"
    /\ UNCHANGED <<op, kwargs, landscape, tunnel_parameters, roughness,
                   convertToMeters, docUnit, make2d_parameters, builderLog,
                   builderRet, extError, prevScale>>

\* the base class constructor raises
SuperConstructFails ==
    /\ pc = "super"
    /\ calls' = Append(calls, "super")
    /\ superArgs' = SuperArgs(kwargs.name, kwargs.geometries, kwargs.wind_vector,
                              tunnel_parameters, roughness,
                              kwargs.meshing_parameters, kwargs.zref, convertToMeters)
    /\ extError' = SuperError
    /\ result' = Propagate(SuperError)
    /\ pc' = "idle"
    /\ UNCHANGED <<op, kwargs, landscape, tunnel_parameters, roughness,
                   convertToMeters, docUnit, make2d_parameters, instance, builderLog,
                   builderRet, prevScale>>

-----------------------------------------------------------------------------
(* WindTunnelGH.to_openfoam_case *)

\* the arguments of Case.from_wind_tunnel(self, make2d_parameters)
BuilderArgs(self, m) == <<self, m>>

\* variant: the return keyword is missing
ToCaseReturn_Dropped(case) == Return(None)

\* return <the value of the call>
ToCaseReturn(case) == Return(case)

\* entry: an instance method, so it runs on a constructed instance
ToCaseCall ==
    /\ pc = "idle"
    /\ instance # <<>>
    /\ Len(builderLog) < MaxBuilderLog
    /\ \E m \in Make2dInputs : make2d_parameters' = m
    /\ op' = "to_case"
    /\ calls' = <<>>
    /\ builderRet' = None
    /\ extError' = NoErr
    /\ result' = NoResult
    /\ pc' = "builder"
    /\ UNCHANGED <<kwargs, landscape, tunnel_parameters, roughness, convertToMeters,
                   docUnit, superArgs, instance, builderLog, prevScale>>

\* variant: the case is stored on the instance before it is returned
BuilderReturns_CachesCase ==
    /\ pc = "builder"
    /\ builderLog' = Append(builderLog, BuilderArgs(instance, make2d_parameters))
    /\ \E c \in Cases :
        /\ builderRet' = c
        /\ result' = ToCaseReturn(c)
        /\ instance' = Append(instance, c)
    /\ calls' = Append(calls, "Case.from_wind_tunnel")
    /\ pc' = "idle"
    /\ UNCHANGED <<op, kwargs, landscape, tunnel_parameters, roughness,
                   convertToMeters, docUnit, make2d_parameters, superArgs,
                   extError, prevScale>>

\* return Case.from_wind_tunnel(self, make2d_parameters)
BuilderReturns ==
    /\ pc = "builder"
    /\ builderLog' = Append(builderLog, BuilderArgs(instance, make2d_parameters))
    /\ \E c \in Cases :
        /\ builderRet' = c
        /\ result' = ToCaseReturn(c)
    /\ calls' = Append(calls, "Case.from_wind_tunnel")
    /\ pc' = "idle"
    /\ UNCHANGED <<op, kwargs, landscape, tunnel_parameters, roughness,
                   convertToMeters, docUnit, make2d_parameters, superArgs, instance,
                   extError, prevScale>>

\* Case.from_wind_tunnel raises
BuilderFails ==
    /\ pc = "builder"
    /\ builderLog' = Append(builderLog, BuilderArgs(instance, make2d_parameters))
    /\ calls' = Append(calls, "Case.from_wind_tunnel")
    /\ extError' = BuilderError
    /\ result' = Propagate(BuilderError)
    /\ pc' = "idle"
    /\ UNCHANGED <<op, kwargs, landscape, tunnel_parameters, roughness,
                   convertToMeters, docUnit, make2d_parameters, superArgs, instance,
                   builderRet, prevScale>>

-----------------------------------------------------------------------------
(* Environment *)

\* the user changes the unit system of the host document between two calls
ChangeDocumentUnits ==
    /\ pc = "idle"
    /\ \E u \in DocUnits \ {docUnit} : docUnit' = u
    /\ UNCHANGED <<pc, op, kwargs, landscape, tunnel_parameters, roughness,
                   convertToMeters, make2d_parameters, calls, superArgs, instance,
                   builderLog, builderRet, extError, result, prevScale>>

-----------------------------------------------------------------------------
Init ==
    /\ pc = "idle"
    /\ op = "none"
    /\ kwargs = NoKwargs
    /\ landscape = None
    /\ tunnel_parameters = None
    /\ roughness = None
    /\ convertToMeters = None
    /\ docUnit \in DocUnits
    /\ make2d_parameters = None
    /\ calls = <<>>
    /\ superArgs = <<>>
    /\ instance = <<>>
    /\ builderLog = <<>>
    /\ builderRet = None
    /\ extError = NoErr
    /\ result = NoResult
    /\ prevScale = None

Next ==
    \/ ConstructCall
    \/ LookupRoughness
    \/ LookupFails
    \/ QueryUnits
    \/ QueryUnitsFails
    \/ KeepTunnelParameters
    \/ DefaultTunnelParametersUsed
    \/ DefaultTunnelParametersFails
    \/ SuperConstruct
    \/ SuperConstructFails
    \/ ToCaseCall
    \/ BuilderReturns
    \/ BuilderFails
    \/ ChangeDocumentUnits

Spec == Init /\ [][Next]_vars

-----------------------------------------------------------------------------
(* Properties *)

\* collaborator f was invoked by the running / last operation
Called(f) == \E i \in DOMAIN calls : calls[i] = f

\* number of invocations of collaborator f in log
Count(f, log) == Cardinality({i \in DOMAIN log : log[i] = f})

\* position of the first invocation of collaborator f in log
Position(f, log) == CHOOSE i \in DOMAIN log : log[i] = f

\* the landscape bound to the parameter is an integer in 0..7
ValidLandscape == landscape.t = "int" /\ landscape.v \in 0..7

\* the roughness lengths of the categories 0..7, in 1e-4 m
TableEntry(n) ==
    CASE n = 0 -> 2 [] n = 1 -> 50 [] n = 2 -> 300 [] n = 3 -> 1000
      [] n = 4 -> 2500 [] n = 5 -> 5000 [] n = 6 -> 10000 [] n = 7 -> 20000

\* the operation ended by raising the invalid-landscape error
InvalidLandscapeRaised ==
    op = "construct" /\ result.kind = "raise" /\ result.err.type = "ValueError"

\* construct ran to its end and returned the adapter
Constructed == op = "construct" /\ pc = "idle" /\ result.kind = "return"

\* C1: for a landscape in 0..7 the lookup does not fail (construct never ends
\* with the invalid-landscape error, and returns unless another collaborator
\* raises), and the roughness handed to the base class constructor is the
\* table entry of that index.
C1_RoughnessFromTable ==
    (op = "construct" /\ ValidLandscape /\ Called("Z0")) =>
        /\ roughness = PyFloat(TableEntry(landscape.v))
        /\ ~InvalidLandscapeRaised
        /\ result.kind = "raise" =>
                result.err \in {UnitError, TunnelParametersError, SuperError}
        /\ superArgs # <<>> => superArgs[5] = PyFloat(TableEntry(landscape.v))

C1_Witness ==
    /\ Constructed
    /\ landscape = PyInt(7)
    /\ superArgs[5] = PyFloat(20000)

\* C2: for a landscape that is not an integer in 0..7, construct ends at the
\* lookup with the invalid-landscape error, whose message holds the text of
\* the landscape value and the message of the lookup failure.
C2_InvalidLandscapeRejected ==
    (op = "construct" /\ ~ValidLandscape /\ Called("Z0")) =>
        /\ pc = "idle"
        /\ InvalidLandscapeRaised
        /\ extError.type \in {"IndexError", "TypeError"}
        /\ \E i \in DOMAIN result.text : result.text[i] = PyStr(landscape)
        /\ \E i \in DOMAIN result.text : result.text[i] = extError.msg

C2_Witness ==
    /\ InvalidLandscapeRaised
    /\ landscape = PyInt(0 - 1)
    /\ result.text[2] = "-1"

\* C3: when construct fails on an invalid landscape, nothing but the lookup
\* has been invoked: no unit query, no default TunnelParameters, no call of
\* the base class constructor, and no instance exists.
C3_NoPartialConstruction ==
    InvalidLandscapeRaised =>
        /\ calls = <<"Z0">>
        /\ ~Called("convert_document_units_to_meters")
        /\ ~Called("TunnelParameters")
        /\ ~Called("super")
        /\ superArgs = <<>>
        /\ instance = <<>>

C3_Witness ==
    /\ InvalidLandscapeRaised
    /\ landscape = PyInt(8)
    /\ calls = <<"Z0">>

\* C4 as stated: the tunnel_parameters handed to the base class constructor
\* is never None, is a fresh default when the caller passed None, and is the
\* caller's value for every value the caller supplied.
C4_Original ==
    (op = "construct" /\ superArgs # <<>>) =>
        /\ superArgs[4] # None
        /\ kwargs.tunnel_parameters = None =>
                superArgs[4] = DefaultTunnelParameters /\ Called("TunnelParameters")
        /\ kwargs.tunnel_parameters # None =>
                superArgs[4] = kwargs.tunnel_parameters

\* C4 amended: the tunnel_parameters handed to the base class constructor is
\* never None; a fresh default is handed on when the caller's value is false
\* in a boolean context (None, an empty list), and the caller's value itself
\* when it is true in a boolean context.
C4_TunnelParametersResolved ==
    (op = "construct" /\ superArgs # <<>>) =>
        /\ superArgs[4] # None
        /\ kwargs.tunnel_parameters \in {None, PyList(0)} =>
                superArgs[4] = DefaultTunnelParameters /\ Called("TunnelParameters")
        /\ kwargs.tunnel_parameters \notin {None, PyList(0)} =>
                superArgs[4] = kwargs.tunnel_parameters /\ ~Called("TunnelParameters")

C4_Witness ==
    /\ Constructed
    /\ kwargs.tunnel_parameters = PyList(0)
    /\ superArgs[4] = DefaultTunnelParameters

\* C5: the base class constructor receives eight positional arguments: name,
\* geometries, wind_vector, tunnel_parameters, roughness, meshing_parameters,
\* zref, scale factor; name, geometries, wind_vector, meshing_parameters and
\* zref are the caller's values, None and the empty list included.
C5_ArgumentsForwarded ==
    superArgs # <<>> =>
        /\ Len(superArgs) = 8
        /\ superArgs[1] = kwargs.name
        /\ superArgs[2] = kwargs.geometries
        /\ superArgs[3] = kwargs.wind_vector
        /\ superArgs[4] = tunnel_parameters
        /\ superArgs[5] = roughness
        /\ superArgs[6] = kwargs.meshing_parameters
        /\ superArgs[7] = kwargs.zref
        /\ superArgs[8] = convertToMeters

C5_Witness ==
    /\ Constructed
    /\ kwargs.zref = None
    /\ kwargs.meshing_parameters = Obj("MeshingParameters", 1)
    /\ kwargs.geometries = <<>>
    /\ superArgs[6] = Obj("MeshingParameters", 1)
    /\ superArgs[7] = None
    /\ superArgs[2] = <<>>

\* C6: a finished to_openfoam_case has called Case.from_wind_tunnel once,
\* with (the instance, make2d_parameters), and hands its caller what the
\* builder produced: the returned value as it is, or the builder's error.
C6_PureDelegation ==
    (op = "to_case" /\ pc = "idle") =>
        /\ calls = <<"Case.from_wind_tunnel">>
        /\ builderLog[Len(builderLog)] = <<instance, make2d_parameters>>
        /\ extError = NoErr =>
                result.kind = "return" /\ result.value = builderRet /\ builderRet \in Cases
        /\ extError # NoErr => result.kind = "raise" /\ result.err = extError

C6_Witness ==
    /\ op = "to_case"
    /\ pc = "idle"
    /\ make2d_parameters = None
    /\ result.kind = "return"
    /\ result.value = Obj("Case", 2)

\* C7: to_openfoam_case starts only on a constructed instance, no step of it
\* changes the instance, and the builder calls made with the same
\* make2d_parameters on it have equal argument lists.
C7_RepeatableNonMutating ==
    [][ /\ pc' = "builder" => instance # <<>>
        /\ op' = "to_case" => (instance' = instance /\ instance' # <<>>)
        /\ \A i, j \in DOMAIN builderLog' :
                builderLog'[i][2] = builderLog'[j][2] => builderLog'[i] = builderLog'[j]
      ]_vars

C7_Witness ==
    /\ op = "to_case"
    /\ pc = "idle"
    /\ Len(builderLog) = 2
    /\ builderLog[1] = builderLog[2]
    /\ builderLog[2][1] = instance

\* C8: an error reaching the caller is the invalid-landscape error exactly
\* when the lookup raised; the error of any other collaborator reaches the
\* caller as it was raised; no collaborator is invoked twice in an operation.
C8_OnlyLookupWrapped ==
    /\ \A i, j \in DOMAIN calls : calls[i] = calls[j] => i = j
    /\ (pc = "idle" /\ extError # NoErr) => result.kind = "raise"
    /\ result.kind = "raise" =>
        IF extError.type \in {"IndexError", "TypeError"}
        THEN result.err.type = "ValueError" /\ calls[Len(calls)] = "Z0"
        ELSE /\ result.err = extError
             /\ result.text = <<extError.msg>>
             /\ extError \in {UnitError, TunnelParametersError, SuperError, BuilderError}

C8_Witness ==
    /\ op = "construct"
    /\ result.kind = "raise"
    /\ result.err = UnitError
    /\ calls = <<"Z0", "convert_document_units_to_meters">>

C10_ScaleReadAtCallTime ==
    [][ (pc = "super" /\ pc' = "idle") =>
            /\ Count("convert_document_units_to_meters", calls') = 1
            /\ Count("super", calls') = 1
            /\ Count("Z0", calls') = 1
            /\ Position("Z0", calls') < Position("convert_document_units_to_meters", calls')
            /\ Position("convert_document_units_to_meters", calls') < Position("super", calls')
            /\ superArgs'[8] = convert_document_units_to_meters(docUnit)
      ]_vars

C10_Witness ==
    /\ Constructed
    /\ prevScale = PyFloat(10000)
    /\ docUnit = "Millimeters"
    /\ superArgs[8] = PyFloat(10)

=============================================================================
